---- MODULE Spec2Model ----
(***************************************************************************)
(* Model of the water-quality ETL pipeline:                                *)
(*   src/scripts/transform.py  transform_quality_data                      *)
(*   src/dags/quality.py       extract, transform, load and the DAG        *)
(*                                                                         *)
(* Numbers are integers in hundredths: 250 stands for 2.50, 100 for the    *)
(* ordinal code 1.  A column name is a sequence of tokens; a token is a    *)
(* word, a space or an underscore, with a flag saying whether it is        *)
(* written in upper case.                                                  *)
(***************************************************************************)
EXTENDS Integers, Sequences, FiniteSets, TLC

VARIABLES
    rawFile,     \* RAW_FILE: the raw CSV on disk
    tempFile,    \* RAW_FILE + ".temp" exists
    cleanCsv,    \* TRANSFORMED_FILE_CSV
    parquet,     \* TRANSFORMED_FILE_PARQUET
    dbTable,     \* water_data.calidad_agua_clean
    dbViews,     \* the two views of water_data
    taskState,   \* the scheduler's state of each task of the current DAG run
    tries,       \* attempts each task has started in the current DAG run
    loadPc,      \* position inside a running load()
    loadDf,      \* load()'s local df_to_load
    loadErr,     \* how the last load() attempt ended
    loadLog,     \* steps of load() that committed in the current or last attempt
    tableAtStart,\* the destination table as the current or last load() found it
    runs         \* DAG runs started so far

vars == <<rawFile, tempFile, cleanCsv, parquet, dbTable, dbViews, taskState,
          tries, loadPc, loadDf, loadErr, loadLog, tableAtStart, runs>>

----------------------------------------------------------------------------
(* Bounds of the model *)

MaxRows == 2

MaxRuns == 2

----------------------------------------------------------------------------
(* Cells, column names, files *)

Str(s) == [k |-> "str", s |-> s, n |-> 0]

Num(n) == [k |-> "num", s |-> "", n |-> n]

NaN == [k |-> "nan", s |-> "", n |-> 0]

Tok(w, up) == [w |-> w, up |-> up]

SP == Tok(" ", FALSE)

US == Tok("_", FALSE)

Word(w) == Tok(w, FALSE)

NoFile == [st |-> "missing", size |-> 0, cols |-> <<>>, rows |-> <<>>]

ZeroByteFile == [st |-> "zero", size |-> 0, cols |-> <<>>, rows |-> <<>>]

CsvFile(size, cols, rows) == [st |-> "csv", size |-> size, cols |-> cols, rows |-> rows]

\* The text of a number as a CSV field holds it
NumText(n) == ToString(n)

NumLiterals == {0, 100, 200, 300, 400}

IsNumText(s) == \E n \in NumLiterals : NumText(n) = s

TextNum(s) == CHOOSE n \in NumLiterals : NumText(n) = s

SeqRange(s) == {s[i] : i \in DOMAIN s}

----------------------------------------------------------------------------
(* pandas.read_csv and DataFrame.to_csv *)

\* dtype read_csv infers for column j
InferDtype(rows, j) ==
    IF Len(rows) > 0 /\ \A i \in DOMAIN rows : rows[i][j].k \in {"num", "nan"}
    THEN "float64" ELSE "object"

\* The value read_csv gives a field of a column of dtype dt
ParseCell(c, dt) ==
    IF dt = "object" /\ c.k = "num" THEN Str(NumText(c.n)) ELSE c

ReadCsv(f) ==
    LET dt == [j \in DOMAIN f.cols |-> InferDtype(f.rows, j)]
    IN  [cols |-> f.cols,
         rows |-> [i \in DOMAIN f.rows |->
                     [j \in DOMAIN f.cols |-> ParseCell(f.rows[i][j], dt[j])]],
         dt   |-> dt]

\* The field to_csv writes for a value
FormatCell(c) ==
    IF c.k = "str" /\ IsNumText(c.s) THEN Num(TextNum(c.s)) ELSE c

WriteCsv(df) ==
    CsvFile(1, df.cols,
            [i \in DOMAIN df.rows |->
               [j \in DOMAIN df.cols |-> FormatCell(df.rows[i][j])]])

----------------------------------------------------------------------------
(* transform_quality_data *)

RECURSIVE DropDuplicateRows(_)
DropDuplicateRows(rows) ==
    IF rows = <<>> THEN <<>>
    ELSE LET n    == Len(rows)
             init == DropDuplicateRows(SubSeq(rows, 1, n - 1))
         IN  IF rows[n] \in SeqRange(init) THEN init ELSE Append(init, rows[n])

\* Mutant: the duplicate rows are kept
keep_duplicates(df) == [cols |-> df.cols, rows |-> df.rows]

drop_duplicates(df) == [cols |-> df.cols, rows |-> DropDuplicateRows(df.rows)]

RECURSIVE LStrip(_)
LStrip(c) == IF c # <<>> /\ Head(c).w = " " THEN LStrip(Tail(c)) ELSE c

RECURSIVE RStrip(_)
RStrip(c) ==
    IF c # <<>> /\ c[Len(c)].w = " " THEN RStrip(SubSeq(c, 1, Len(c) - 1)) ELSE c

Strip(c) == RStrip(LStrip(c))

ReplaceSpaces(c) == [i \in DOMAIN c |-> IF c[i].w = " " THEN US ELSE c[i]]

Lower(c) == [i \in DOMAIN c |-> [c[i] EXCEPT !.up = FALSE]]

NormalizeName(c) == Lower(ReplaceSpaces(Strip(c)))

NormalizeColumns(df) ==
    [cols |-> [j \in DOMAIN df.cols |-> NormalizeName(df.cols[j])], rows |-> df.rows]

FillCell(c) == IF c.k = "nan" THEN Num(0) ELSE c

fillna(df) ==
    [cols |-> df.cols,
     rows |-> [i \in DOMAIN df.rows |->
                 [j \in DOMAIN df.cols |-> FillCell(df.rows[i][j])]]]

quality_map ==
    [s \in {"Excelente", "Buena calidad", "Aceptable", "Contaminada"} |->
        CASE s = "Excelente"     -> 100
          [] s = "Buena calidad" -> 200
          [] s = "Aceptable"     -> 300
          [] s = "Contaminada"   -> 400]

semaforo_map ==
    [s \in {"VERDE", "AMARILLO", "ROJO"} |->
        CASE s = "VERDE"    -> 100
          [] s = "AMARILLO" -> 200
          [] s = "ROJO"     -> 300]

\* Series.map(dict): a value that is no key of the dict gives NaN
MapCell(c, m) == IF c.k = "str" /\ c.s \in DOMAIN m THEN Num(m[c.s]) ELSE NaN

HasCol(df, name) == name \in SeqRange(df.cols)

ColIndex(df, name) == CHOOSE j \in DOMAIN df.cols : df.cols[j] = name

\* df[name] = vals: an existing column is overwritten, a new one is appended
SetColumn(df, name, vals) ==
    IF HasCol(df, name)
    THEN [cols |-> df.cols,
          rows |-> [i \in DOMAIN df.rows |->
                      [df.rows[i] EXCEPT ![ColIndex(df, name)] = vals[i]]]]
    ELSE [cols |-> Append(df.cols, name),
          rows |-> [i \in DOMAIN df.rows |-> Append(df.rows[i], vals[i])]]

MapColumn(df, src, dst, m) ==
    IF HasCol(df, src)
    THEN SetColumn(df, dst,
                   [i \in DOMAIN df.rows |-> MapCell(df.rows[i][ColIndex(df, src)], m)])
    ELSE df

Col_calidad_dqo == <<Word("calidad"), US, Word("dqo")>>

Col_calidad_dbo == <<Word("calidad"), US, Word("dbo")>>

Col_calidad_sst == <<Word("calidad"), US, Word("sst")>>

Col_indice_dqo == <<Word("indice"), US, Word("calidad"), US, Word("dqo")>>

Col_indice_dbo == <<Word("indice"), US, Word("calidad"), US, Word("dbo")>>

Col_indice_sst == <<Word("indice"), US, Word("calidad"), US, Word("sst")>>

Col_indice_general == <<Word("indice"), US, Word("calidad"), US, Word("general")>>

Col_semaforo == <<Word("semaforo")>>

Col_semaforo_numerico == <<Word("semaforo"), US, Word("numerico")>>

IndicePrefix == <<Word("indice"), US, Word("calidad"), US>>

StartsWith(c, p) == Len(c) >= Len(p) /\ SubSeq(c, 1, Len(p)) = p

\* [col for col in df.columns if col.startswith('indice_calidad_')]
SelectsIndice(c) == StartsWith(c, IndicePrefix)

indice_columns(df) == {j \in DOMAIN df.cols : SelectsIndice(df.cols[j])}

RECURSIVE SumCells(_, _)
SumCells(row, js) ==
    IF js = {} THEN 0
    ELSE LET j == CHOOSE x \in js : TRUE
         IN  row[j].n + SumCells(row, js \ {j})

\* round(x, 2) of sum/n, in hundredths
Round2(sum, n) == (2 * sum + n) \div (2 * n)

\* DataFrame.mean(axis=1): NaN cells are skipped, a row of NaN gives NaN
RowMean(row, js) ==
    LET present == {j \in js : row[j].k = "num"}
    IN  IF present = {} THEN NaN
        ELSE Num(Round2(SumCells(row, present), Cardinality(present)))

AddGeneral(df) ==
    LET js == indice_columns(df)
    IN  IF js # {}
        THEN SetColumn(df, Col_indice_general,
                       [i \in DOMAIN df.rows |-> RowMean(df.rows[i], js)])
        ELSE df

TransformFrame(df0) ==
    LET d1 == drop_duplicates(df0)
        d2 == NormalizeColumns(d1)
        d3 == fillna(d2)
        d4 == MapColumn(d3, Col_calidad_dqo, Col_indice_dqo, quality_map)
        d5 == MapColumn(d4, Col_calidad_dbo, Col_indice_dbo, quality_map)
        d6 == MapColumn(d5, Col_calidad_sst, Col_indice_sst, quality_map)
        d7 == AddGeneral(d6)
    IN  MapColumn(d7, Col_semaforo, Col_semaforo_numerico, semaforo_map)

\* The file transform_quality_data(input_path, output_path) writes
transform_quality_data(input) == WriteCsv(TransformFrame(ReadCsv(input)))

----------------------------------------------------------------------------
(* The DAG: t1 >> t2 >> t3 under default_args *)

Stages == {"extract", "transform", "load"}

retries == 2

Upstream(s) ==
    CASE s = "extract"   -> {}
      [] s = "transform" -> {"extract"}
      [] s = "load"      -> {"transform"}

\* Mutant: a task runs whatever became of the tasks above it
UpstreamIgnored(s) == TRUE

\* The default trigger rule: a task runs once every upstream task has succeeded
UpstreamDone(s) == \A u \in Upstream(s) : taskState[u] = "success"

Runnable(s) == taskState[s] \in {"none", "up_for_retry"} /\ UpstreamDone(s)

\* The state of a task whose attempt number n raised
AfterFailure(n) == IF n <= retries THEN "up_for_retry" ELSE "failed"

Terminal == {"success", "failed", "upstream_failed"}

\* A task below a failed one is never run
MarkUpstreamFailed(s) ==
    /\ taskState[s] = "none"
    /\ \E u \in Upstream(s) : taskState[u] \in {"failed", "upstream_failed"}
    /\ taskState' = [taskState EXCEPT ![s] = "upstream_failed"]
    /\ UNCHANGED <<rawFile, tempFile, cleanCsv, parquet, dbTable, dbViews, tries,
                   loadPc, loadDf, loadErr, loadLog, tableAtStart, runs>>

----------------------------------------------------------------------------
(* extract *)

\* Mutant: a file of zero bytes is refused too
ExtractRaisesOnEmpty(f) == f.st \in {"missing", "zero"}

\* os.path.exists(RAW_FILE); the size is only logged
ExtractRaises(f) == f.st = "missing"

Extract ==
    /\ Runnable("extract")
    /\ tries' = [tries EXCEPT !["extract"] = @ + 1]
    /\ taskState' = [taskState EXCEPT !["extract"] =
                        IF ExtractRaises(rawFile)
                        THEN AfterFailure(tries'["extract"]) ELSE "success"]
    /\ UNCHANGED <<rawFile, tempFile, cleanCsv, parquet, dbTable, dbViews,
                   loadPc, loadDf, loadErr, loadLog, tableAtStart, runs>>

----------------------------------------------------------------------------
(* transform *)

chunk_size == 10000

BigFile(f) == f.size > 5 * 1024 * 1024

RECURSIVE Chunks(_, _)
Chunks(rows, n) ==
    IF Len(rows) <= n THEN <<rows>>
    ELSE <<SubSeq(rows, 1, n)>> \o Chunks(SubSeq(rows, n + 1, Len(rows)), n)

RECURSIVE ConcatRows(_)
ConcatRows(frames) ==
    IF frames = <<>> THEN <<>> ELSE Head(frames).rows \o ConcatRows(Tail(frames))

\* pd.concat of the chunks read_csv(chunksize=...) yields, each parsed on its own
ReadCsvChunked(f) ==
    LET frames == [c \in DOMAIN Chunks(f.rows, chunk_size) |->
                      ReadCsv([f EXCEPT !.rows = Chunks(f.rows, chunk_size)[c]])]
    IN  [cols |-> f.cols,
         rows |-> ConcatRows(frames),
         dt   |-> [j \in DOMAIN f.cols |->
                     IF \A c \in DOMAIN frames : frames[c].dt[j] = "float64"
                     THEN "float64" ELSE "object"]]

ReadRaw(f) == IF BigFile(f) THEN ReadCsvChunked(f) ELSE ReadCsv(f)

NoParquet == [st |-> "missing", cols |-> <<>>, rows |-> <<>>, dt |-> <<>>]

\* df_transformed.to_parquet(...): the frame with its dtypes
ToParquet(df) == [st |-> "ok", cols |-> df.cols, rows |-> df.rows, dt |-> df.dt]

TransformFails(f) ==
    /\ tries' = [tries EXCEPT !["transform"] = @ + 1]
    /\ taskState' = [taskState EXCEPT !["transform"] = AfterFailure(tries'["transform"])]
    /\ UNCHANGED <<rawFile, dbTable, dbViews, loadPc, loadDf, loadErr, loadLog,
                   tableAtStart, runs>>

\* fault: the write that raises in this attempt, if any
Transform(fault) ==
    /\ Runnable("transform")
    /\ IF rawFile.st # "csv"
       THEN \* getsize or read_csv raises before anything is written
            /\ fault = "none"
            /\ TransformFails(rawFile)
            /\ UNCHANGED <<tempFile, cleanCsv, parquet>>
       ELSE LET temp  == WriteCsv(ReadRaw(rawFile))
                clean == transform_quality_data(temp)
            IN  CASE fault = "write_csv" ->
                       /\ TransformFails(rawFile)
                       /\ tempFile' = TRUE
                       /\ UNCHANGED <<cleanCsv, parquet>>
                  [] fault = "write_parquet" ->
                       /\ TransformFails(rawFile)
                       /\ tempFile' = TRUE
                       /\ cleanCsv' = clean
                       /\ UNCHANGED parquet
                  [] OTHER ->
                       /\ tries' = [tries EXCEPT !["transform"] = @ + 1]
                       /\ taskState' = [taskState EXCEPT !["transform"] = "success"]
                       /\ cleanCsv' = clean
                       /\ parquet' = ToParquet(ReadCsv(clean))
                       /\ tempFile' = FALSE
                       /\ UNCHANGED <<rawFile, dbTable, dbViews, loadPc, loadDf,
                                      loadErr, loadLog, tableAtStart, runs>>

----------------------------------------------------------------------------
(* The database *)

ViewNames == {"resumen_por_estado", "calidad_por_periodo"}

NoViews == [v \in ViewNames |-> "absent"]

FixedViews == [v \in ViewNames |-> "fixed"]

NoTable == [st |-> "absent", cols |-> <<>>, types |-> <<>>, rows |-> <<>>]

Col_estado == <<Word("estado")>>

Col_periodo == <<Word("periodo")>>

Col_fecha_carga == <<Word("fecha"), US, Word("carga")>>

\* The column type to_sql creates for a dtype
SqlType(dt) ==
    CASE dt = "float64"    -> "double"
      [] dt = "datetime64" -> "timestamp"
      [] OTHER             -> "text"

\* The table to_sql creates from a frame and fills with its rows
ToSqlTable(df) ==
    [st    |-> "present",
     cols  |-> df.cols,
     types |-> [j \in DOMAIN df.cols |-> SqlType(df.dt[j])],
     rows  |-> df.rows]

\* Mutant: if_exists='append'
TableAfterAppend(old, df) ==
    IF old.st = "present"
    THEN [old EXCEPT !.rows = old.rows \o ToSqlTable(df).rows]
    ELSE ToSqlTable(df)

\* if_exists='replace': the old table is dropped, whatever it held
TableAfterReplace(old, df) == ToSqlTable(df)

\* What a to_sql that raised may leave behind: nothing changed, the old table
\* dropped, or the new table created and still empty
TableAfterFailedReplace(old, df) ==
    {old, NoTable, [ToSqlTable(df) EXCEPT !.rows = <<>>]}

TypeOf(tbl, name) == tbl.types[CHOOSE j \in DOMAIN tbl.cols : tbl.cols[j] = name]

\* Both SELECTs name estado and indice_calidad_general; AVG takes a numeric
\* column, semaforo is compared with text, periodo is grouped by
ViewsCreatable(tbl) ==
    /\ tbl.st = "present"
    /\ {Col_estado, Col_periodo, Col_semaforo, Col_indice_general} \subseteq SeqRange(tbl.cols)
    /\ TypeOf(tbl, Col_indice_general) = "double"
    /\ TypeOf(tbl, Col_semaforo) = "text"

\* Mutant: each CREATE VIEW commits on its own
ViewsAfterFailedCreateAutocommit(views, stmt) ==
    IF stmt = 2 THEN [views EXCEPT !["resumen_por_estado"] = "fixed"] ELSE views

\* The views after the CREATE VIEW transaction raised at statement stmt
ViewsAfterFailedCreate(views, stmt) == views

----------------------------------------------------------------------------
(* load *)

\* Mutant: the table is replaced before the views are dropped
LoadStepsReplaceFirst == <<"replace", "drop", "views", "verify">>

\* The units of work of load() after the connection check, in order
LoadSteps == <<"drop", "replace", "views", "verify">>

NoFrame == [cols |-> <<>>, rows |-> <<>>, dt |-> <<>>]

NoError == [step |-> "none", fault |-> FALSE]

\* df_to_load = df.copy(); df_to_load['fecha_carga'] = datetime.now()
WithLoadTime(df, now) ==
    [cols |-> Append(df.cols, Col_fecha_carga),
     rows |-> [i \in DOMAIN df.rows |-> Append(df.rows[i], Num(now))],
     dt   |-> Append(df.dt, "datetime64")]

AtStep(step) == loadPc > 0 /\ LoadSteps[loadPc] = step

\* The except clause: log and re-raise
StepFails(step, fault) ==
    /\ loadPc' = 0
    /\ loadErr' = [step |-> step, fault |-> fault]
    /\ taskState' = [taskState EXCEPT !["load"] = AfterFailure(tries["load"])]
    /\ UNCHANGED loadLog

StepDone(step) ==
    /\ loadLog' = Append(loadLog, step)
    /\ IF loadPc = Len(LoadSteps)
       THEN /\ loadPc' = 0
            /\ loadErr' = NoError
            /\ taskState' = [taskState EXCEPT !["load"] = "success"]
       ELSE /\ loadPc' = loadPc + 1
            /\ UNCHANGED <<loadErr, taskState>>

\* datetime.now(): later in every later attempt, of this DAG run or the next
Now == (retries + 2) * runs + tries["load"]

\* read_parquet, the connection check and df_to_load
LoadBegin(fault) ==
    /\ Runnable("load")
    /\ loadPc = 0
    /\ tries' = [tries EXCEPT !["load"] = @ + 1]
    /\ tableAtStart' = dbTable
    /\ loadLog' = <<>>
    /\ IF parquet.st # "ok" \/ fault
       THEN /\ parquet.st # "ok" => ~fault
            /\ loadPc' = 0
            /\ loadErr' = [step |-> IF parquet.st # "ok" THEN "read" ELSE "connect",
                           fault |-> fault]
            /\ taskState' = [taskState EXCEPT !["load"] = AfterFailure(tries'["load"])]
            /\ UNCHANGED loadDf
       ELSE /\ loadPc' = 1
            /\ loadErr' = NoError
            /\ taskState' = [taskState EXCEPT !["load"] = "running"]
            /\ loadDf' = WithLoadTime(parquet, Now)
    /\ UNCHANGED <<rawFile, tempFile, cleanCsv, parquet, dbTable, dbViews, runs>>

\* with engine.begin(): DROP VIEW IF EXISTS ... CASCADE, twice
LoadDropViews(fault) ==
    /\ AtStep("drop")
    /\ IF fault
       THEN StepFails("drop", TRUE) /\ UNCHANGED dbViews
       ELSE StepDone("drop") /\ dbViews' = NoViews
    /\ UNCHANGED <<rawFile, tempFile, cleanCsv, parquet, dbTable, tries, loadDf,
                   tableAtStart, runs>>

\* A table that views are defined on cannot be dropped
DropRefused == dbTable.st = "present" /\ \E v \in ViewNames : dbViews[v] # "absent"

\* df_to_load.to_sql(..., if_exists='replace', ...)
LoadReplaceTable(fault) ==
    /\ AtStep("replace")
    /\ IF DropRefused
       THEN ~fault /\ StepFails("replace", FALSE) /\ UNCHANGED dbTable
       ELSE IF fault
            THEN /\ StepFails("replace", TRUE)
                 /\ dbTable' \in TableAfterFailedReplace(dbTable, loadDf)
            ELSE /\ StepDone("replace")
                 /\ dbTable' = TableAfterReplace(dbTable, loadDf)
    /\ UNCHANGED <<rawFile, tempFile, cleanCsv, parquet, dbViews, tries, loadDf,
                   tableAtStart, runs>>

\* with engine.begin(): CREATE VIEW, twice.  fault: the statement at which
\* the database connection fails (0: at none)
LoadCreateViews(fault) ==
    /\ AtStep("views")
    /\ LET refused == ~ViewsCreatable(dbTable) \/ dbViews # NoViews
       IN  IF refused \/ fault > 0
           THEN /\ refused => fault = 0
                /\ StepFails("views", ~refused)
                /\ dbViews' = ViewsAfterFailedCreate(dbViews, IF refused THEN 1 ELSE fault)
           ELSE /\ StepDone("views")
                /\ dbViews' = FixedViews
    /\ UNCHANGED <<rawFile, tempFile, cleanCsv, parquet, dbTable, tries, loadDf,
                   tableAtStart, runs>>

\* SELECT COUNT(*) and the semaforo distribution
LoadVerify(fault) ==
    /\ AtStep("verify")
    /\ IF fault THEN StepFails("verify", TRUE) ELSE StepDone("verify")
    /\ UNCHANGED <<rawFile, tempFile, cleanCsv, parquet, dbTable, dbViews, tries,
                   loadDf, tableAtStart, runs>>

----------------------------------------------------------------------------
(* schedule_interval="@daily": the next DAG run, against the same files *)

NextRun ==
    /\ runs < MaxRuns
    /\ \A s \in Stages : taskState[s] \in Terminal
    /\ runs' = runs + 1
    /\ taskState' = [s \in Stages |-> "none"]
    /\ tries' = [s \in Stages |-> 0]
    /\ loadDf' = NoFrame
    /\ loadErr' = NoError
    /\ loadLog' = <<>>
    /\ tableAtStart' = dbTable
    /\ UNCHANGED <<rawFile, tempFile, cleanCsv, parquet, dbTable, dbViews, loadPc>>

----------------------------------------------------------------------------
(* Raw inputs *)

H_DQO == <<Tok("calidad", TRUE), US, Tok("dqo", TRUE)>>

H_DBO == <<SP, Tok("calidad", TRUE), SP, Tok("dbo", TRUE)>>

H_SST == <<Word("calidad"), US, Word("sst"), SP>>

H_LAB == <<Tok("indice", TRUE), SP, Tok("calidad", TRUE), SP, Tok("lab", TRUE)>>

H_VALOR == <<Tok("dqo", TRUE), US, Word("mg/l")>>

H_SEMAFORO == <<Tok("semaforo", TRUE)>>

H_ESTADO == <<Tok("estado", TRUE)>>

H_PERIODO == <<Tok("periodo", TRUE), SP>>

Column(h, dom) == [h |-> h, dom |-> dom]

Categories == {Str("Excelente"), Str("Buena calidad"), Str("Aceptable"),
               Str("Contaminada"), Str("Sin clasificar"), NaN}

Layouts ==
    { <<Column(H_DQO, Categories), Column(H_DBO, Categories)>>,
      <<Column(H_DQO, {Str("Excelente"), Str("Buena calidad"), Str("Sin clasificar")}),
        Column(H_DBO, {Str("Buena calidad"), Str("Contaminada"), NaN}),
        Column(H_SST, {Str("Buena calidad"), Str("Aceptable")})>>,
      <<Column(H_DQO, {Str("Excelente"), Str("Contaminada"), NaN}),
        Column(H_LAB, {NaN, Num(0), Num(400)})>>,
      <<Column(H_LAB, {NaN, Num(0), Num(400)}),
        Column(H_VALOR, {NaN, Num(0), Num(300)})>>,
      <<Column(H_VALOR, {NaN, Num(0), Num(300)}),
        Column(H_SEMAFORO, {Str("VERDE"), Str("ROJO"), NaN})>> }

Headers(L) == [j \in DOMAIN L |-> L[j].h]

RowsOfLayout(L) ==
    {r \in [DOMAIN L -> UNION {L[j].dom : j \in DOMAIN L}] :
        \A j \in DOMAIN L : r[j] \in L[j].dom}

TablesOf(L, sizes) ==
    UNION {{CsvFile(size, Headers(L), rows) : rows \in [1..n -> RowsOfLayout(L)], size \in sizes} :
              n \in 0..MaxRows}

FullSchema ==
    <<Column(H_DQO, {Str("Excelente"), NaN}), Column(H_SEMAFORO, {Str("VERDE")}),
      Column(H_ESTADO, {Str("Sonora")}), Column(H_PERIODO, {Num(100)})>>

NoSemaforoSchema ==
    <<Column(H_DQO, {Str("Excelente")}), Column(H_ESTADO, {Str("Sonora")}),
      Column(H_PERIODO, {Num(100)})>>

PipelineInputs ==
    {NoFile, ZeroByteFile}
        \cup TablesOf(FullSchema, {1024})
        \cup {f \in TablesOf(FullSchema, {6 * 1024 * 1024}) : Len(f.rows) = MaxRows}
        \cup {f \in TablesOf(NoSemaforoSchema, {1024}) : Len(f.rows) = 1}

OldTable ==
    [st    |-> "present",
     cols  |-> <<Col_estado, Col_fecha_carga>>,
     types |-> <<"text", "timestamp">>,
     rows  |-> [i \in 1..3 |-> <<Str("Oaxaca"), Num(0)>>]]

InitialDatabases ==
    { <<NoTable, NoViews>>,
      <<OldTable, FixedViews>>,
      <<OldTable, [NoViews EXCEPT !["resumen_por_estado"] = "legacy"]>> }

----------------------------------------------------------------------------
(* The pipeline *)

Idle ==
    /\ tempFile = FALSE
    /\ cleanCsv = NoFile
    /\ parquet = NoParquet
    /\ taskState = [s \in Stages |-> "none"]
    /\ tries = [s \in Stages |-> 0]
    /\ loadPc = 0
    /\ loadDf = NoFrame
    /\ loadErr = NoError
    /\ loadLog = <<>>
    /\ tableAtStart = dbTable
    /\ runs = 1

Init ==
    /\ rawFile \in PipelineInputs
    /\ \E db \in InitialDatabases : dbTable = db[1] /\ dbViews = db[2]
    /\ Idle

Next ==
    \/ Extract
    \/ \E fault \in {"none", "write_csv", "write_parquet"} : Transform(fault)
    \/ \E fault \in BOOLEAN : LoadBegin(fault)
    \/ \E fault \in BOOLEAN : LoadDropViews(fault)
    \/ \E fault \in BOOLEAN : LoadReplaceTable(fault)
    \/ \E fault \in 0..2 : LoadCreateViews(fault)
    \/ \E fault \in BOOLEAN : LoadVerify(fault)
    \/ \E s \in Stages : MarkUpstreamFailed(s)
    \/ NextRun

Spec == Init /\ [][Next]_vars

----------------------------------------------------------------------------
(* transform_quality_data called on every raw table *)

InitTransform ==
    /\ \E L \in Layouts, n \in 0..MaxRows :
          \E rows \in [1..n -> RowsOfLayout(L)] : rawFile = CsvFile(1024, Headers(L), rows)
    /\ dbTable = NoTable
    /\ dbViews = NoViews
    /\ Idle

CallTransform ==
    /\ cleanCsv.st = "missing"
    /\ cleanCsv' = transform_quality_data(rawFile)
    /\ UNCHANGED <<rawFile, tempFile, parquet, dbTable, dbViews, taskState, tries,
                   loadPc, loadDf, loadErr, loadLog, tableAtStart, runs>>

NextTransform == CallTransform

SpecTransform == InitTransform /\ [][NextTransform]_vars

----------------------------------------------------------------------------
(* Properties of transform_quality_data, checked under SpecTransform *)

Transformed == cleanCsv.st = "csv"

OutCell(i, name) == cleanCsv.rows[i][ColIndex(cleanCsv, name)]

QualityColumns ==
    { <<Col_calidad_dqo, Col_indice_dqo>>,
      <<Col_calidad_dbo, Col_indice_dbo>>,
      <<Col_calidad_sst, Col_indice_sst>> }

\* The categories whose column the source has
Present == {q \in QualityColumns : HasCol(cleanCsv, q[1])}

\* The ordinal code of a category value (0: the value has none)
Ordinal(c) ==
    IF c.k # "str" THEN 0
    ELSE CASE c.s = "Excelente"     -> 100
           [] c.s = "Buena calidad" -> 200
           [] c.s = "Aceptable"     -> 300
           [] c.s = "Contaminada"   -> 400
           [] OTHER                 -> 0

RECURSIVE SumOf(_, _)
SumOf(f, S) ==
    IF S = {} THEN 0
    ELSE LET x == CHOOSE y \in S : TRUE IN f[x] + SumOf(f, S \ {x})

\* c is the mean of the positive entries of f over S, to the nearest hundredth;
\* it is missing when there is none
IsMeanOf(c, f, S) ==
    LET T == {x \in S : f[x] > 0}
        n == Cardinality(T)
        d == n * c.n - SumOf(f, T)
    IN  IF n = 0 THEN c.k = "nan"
        ELSE c.k = "num" /\ 2 * d <= n /\ -2 * d <= n

\* The ordinal codes of row i's category values
CodesOfRow(i) == [q \in Present |-> Ordinal(OutCell(i, q[1]))]

\* The derived ordinals row i holds
DerivedOfRow(i) ==
    [q \in Present |-> IF OutCell(i, q[2]).k = "num" THEN OutCell(i, q[2]).n ELSE 0]

\* C3: in every row, indice_calidad_general is the mean, rounded to 2 decimals,
\* of the ordinal codes of the quality columns that are present; (Excelente,
\* Contaminada) without SST gives 2.5 and three times Buena calidad gives 2.0.
C3_GeneralIsMeanOfCodes ==
    (Transformed /\ Present # {}) =>
        /\ HasCol(cleanCsv, Col_indice_general)
        /\ \A i \in DOMAIN cleanCsv.rows :
              IsMeanOf(OutCell(i, Col_indice_general), CodesOfRow(i), Present)

\* C3, on the inputs that have no other column named indice_calidad_...
C3_HoldsWithoutPrefixedColumns ==
    (\A j \in DOMAIN rawFile.cols : ~SelectsIndice(NormalizeName(rawFile.cols[j])))
        => C3_GeneralIsMeanOfCodes

\* C3's two examples
C3_Examples ==
    Transformed =>
        \A i \in DOMAIN cleanCsv.rows :
            /\ ( /\ Cardinality(Present) = 2
                 /\ ~HasCol(cleanCsv, Col_calidad_sst)
                 /\ OutCell(i, Col_calidad_dqo) = Str("Excelente")
                 /\ OutCell(i, Col_calidad_dbo) = Str("Contaminada") )
               => OutCell(i, Col_indice_general) = Num(250)
            /\ ( /\ Cardinality(Present) = 3
                 /\ \A q \in Present : OutCell(i, q[1]) = Str("Buena calidad") )
               => OutCell(i, Col_indice_general) = Num(200)

\* C4: a category value that is no key of the mapping gives a missing ordinal,
\* raises nothing, and the row's general index is the mean of the row's
\* remaining ordinals only.
C4_UnmappedIsMissingAndExcluded ==
    Transformed =>
        \A i \in DOMAIN cleanCsv.rows : \A q \in Present :
            Ordinal(OutCell(i, q[1])) = 0 =>
                /\ OutCell(i, q[2]).k = "nan"
                /\ IsMeanOf(OutCell(i, Col_indice_general), CodesOfRow(i), Present \ {q})

\* C9: the columns that contribute to the general index are exactly the derived
\* ordinal columns of the categories present; with none present there is no
\* general index.
C9_OnlyDerivedColumnsContribute ==
    Transformed =>
        IF Present = {} THEN ~HasCol(cleanCsv, Col_indice_general)
        ELSE /\ HasCol(cleanCsv, Col_indice_general)
             /\ \A i \in DOMAIN cleanCsv.rows :
                   IsMeanOf(OutCell(i, Col_indice_general), DerivedOfRow(i), Present)

\* C10 as stated: the cleaned table holds no two identical rows.
C10_NoIdenticalRows ==
    Transformed =>
        \A i, j \in DOMAIN cleanCsv.rows : i # j => cleanCsv.rows[i] # cleanCsv.rows[j]

\* The raw rows that are the first of their kind
FirstOccurrences ==
    {i \in DOMAIN rawFile.rows : \A k \in 1..(i - 1) : rawFile.rows[k] # rawFile.rows[i]}

NthFirst(p) ==
    CHOOSE i \in FirstOccurrences : Cardinality({k \in FirstOccurrences : k < i}) = p - 1

ZeroIfEmpty(c) == IF c.k = "nan" THEN [k |-> "num", s |-> "", n |-> 0] ELSE c

\* C10, amended: the cleaned table holds one row for each distinct raw row, in
\* the order of first occurrence, with the raw row's values and zero for the
\* missing ones.
C10_OneRowPerDistinctRawRow ==
    Transformed =>
        /\ Len(cleanCsv.rows) = Cardinality(FirstOccurrences)
        /\ \A p \in DOMAIN cleanCsv.rows : \A j \in DOMAIN rawFile.cols :
              cleanCsv.rows[p][j] = ZeroIfEmpty(rawFile.rows[NthFirst(p)][j])

\* Raw rows were duplicated, the cleaned rows are fewer, and two raw rows that
\* differ are both kept
C10_Witness ==
    /\ Transformed
    /\ Len(cleanCsv.rows) < Len(rawFile.rows)
    /\ Len(cleanCsv.rows) >= 1

\* C4, on the inputs that have no other column named indice_calidad_...
C4_HoldsWithoutPrefixedColumns ==
    (\A j \in DOMAIN rawFile.cols : ~SelectsIndice(NormalizeName(rawFile.cols[j])))
        => C4_UnmappedIsMissingAndExcluded

----------------------------------------------------------------------------
(* Properties of the pipeline, checked under Spec *)

ErrorStates == {"up_for_retry", "failed"}

\* A load() attempt of the current DAG run has ended
LoadEnded == loadPc = 0 /\ tries["load"] > 0

\* C1: the table is replaced only after the transaction that drops both views
\* has committed; when the view-drop step fails the table is as it was before
\* the load started and the load has ended in error.
C1_ViewDropPrecedesReplace ==
    /\ \A k \in DOMAIN loadLog :
          loadLog[k] = "replace" => \E m \in 1..(k - 1) : loadLog[m] = "drop"
    /\ (LoadEnded /\ loadErr.step = "drop") =>
          /\ dbTable = tableAtStart
          /\ taskState["load"] \in ErrorStates

\* A load() found a table and ended at a failed view drop
C1_Witness ==
    /\ LoadEnded
    /\ loadErr.step = "drop"
    /\ tableAtStart.st = "present"
    /\ Len(loadDf.rows) > 0

\* The rows of the table without their fecha_carga
LoadedRows == [i \in DOMAIN dbTable.rows |->
                  SubSeq(dbTable.rows[i], 1, Len(dbTable.rows[i]) - 1)]

\* C2: after load attempts that end with a successful one, the table holds
\* exactly the rows of the cleaned input and both views exist with their fixed
\* definitions.
C2_LoadReplaces ==
    taskState["load"] = "success" =>
        /\ dbTable.st = "present"
        /\ Len(dbTable.rows) = Len(parquet.rows)
        /\ LoadedRows = parquet.rows
        /\ \A v \in ViewNames : dbViews[v] = "fixed"

\* A second DAG run's load succeeded on a retry, over a table that held rows
C2_Witness ==
    /\ taskState["load"] = "success"
    /\ runs = 2
    /\ tries["load"] > 1
    /\ tableAtStart.st = "present"
    /\ Len(tableAtStart.rows) > 0
    /\ Len(dbTable.rows) > 0

\* C5: when load() fails in the view recreation after the table was replaced,
\* nothing is rolled back: the table holds the new rows, the load has ended in
\* error, and neither view exists.
C5_FailedViewsLeaveTable ==
    (LoadEnded /\ loadErr.step = "views") =>
        /\ dbTable.st = "present"
        /\ dbTable.rows = loadDf.rows
        /\ taskState["load"] \in ErrorStates
        /\ \A v \in ViewNames : dbViews[v] = "absent"

\* The connection failed during the view recreation, over a replaced table
C5_Witness ==
    /\ LoadEnded
    /\ loadErr = [step |-> "views", fault |-> TRUE]
    /\ Len(dbTable.rows) > 0
    /\ dbTable # tableAtStart

\* C6 as stated: extract does not succeed on a missing file nor on an empty one.
C6_ExtractRefusesMissingAndEmpty ==
    rawFile.st \in {"missing", "zero"} => taskState["extract"] # "success"

\* C6, amended: an extract attempt fails when the file does not exist and
\* succeeds otherwise, whatever the file's size.
C6_ExtractChecksExistenceOnly ==
    tries["extract"] > 0 =>
        IF rawFile.st = "missing"
        THEN taskState["extract"] \in ErrorStates
        ELSE taskState["extract"] = "success"

\* extract succeeded on a file of zero bytes
C6_Witness == rawFile.st = "zero" /\ taskState["extract"] = "success"

\* C7: a load() of a cleaned file with zero rows, in which the database and
\* the connection do not fail, succeeds, leaving a table of zero rows and both
\* views.
C7_EmptyLoadSucceeds ==
    (LoadEnded /\ parquet.st = "ok" /\ Len(parquet.rows) = 0 /\ ~loadErr.fault) =>
        /\ taskState["load"] = "success"
        /\ dbTable.st = "present"
        /\ Len(dbTable.rows) = 0
        /\ \A v \in ViewNames : dbViews[v] = "fixed"

Later(s) ==
    CASE s = "extract"   -> {"transform", "load"}
      [] s = "transform" -> {"load"}
      [] s = "load"      -> {}

\* C8: transform starts only after extract succeeded, load only after transform
\* succeeded, no stage has more than 3 attempts, and no stage after a failed
\* one is started.
C8_StagesInOrder ==
    /\ tries["transform"] > 0 => taskState["extract"] = "success"
    /\ tries["load"] > 0 => taskState["transform"] = "success"
    /\ \A s \in Stages : tries[s] <= 3
    /\ \A s \in Stages : taskState[s] = "failed" =>
          tries[s] = 3 /\ \A t \in Later(s) : tries[t] = 0

\* transform failed on its third attempt and load was never run
C8_Witness ==
    /\ taskState["extract"] = "success"
    /\ taskState["transform"] = "failed"
    /\ tries["transform"] = 3
    /\ taskState["load"] = "upstream_failed"

====
